---- MODULE Spec2Model ----
(***************************************************************************)
(* The two golden-output harnesses of the repository:                      *)
(*   test.py           compile-then-run: ./target/debug/verbena <src>      *)
(*                     writes a.mjs, then `node a.mjs` is run;             *)
(*   test_examples.py  direct-run: ./target/debug/verbena <src> is fed     *)
(*                     input.txt on stdin.                                 *)
(* One run of main() is modelled; `mode` says which script runs.           *)
(* Texts are sequences of character tokens ("LF" is \n, "CR" is \r).       *)
(***************************************************************************)
EXTENDS Integers, Sequences, FiniteSets, TLC

\* Most directory entries a listing holds.
MaxEntries == 2

\* The first characters of the directory entries (one per entry, distinct).
Stems == <<"a", "b", "c", "d">>

DotVa == <<".", "v", "a">>

\* What follows the stem in an entry name.
Suffixes == {DotVa, <<>>}

\* Byte contents a fixture file may hold or a child may write to stdout.
RawTexts ==
    { <<>>,
      <<"2", "0">>,
      <<"2", "0", "LF">>,
      <<"2", "0", "CR", "LF">>,
      <<"2", "0", "CR">> }

\* What a child may write to stderr.
RawErrs == { <<>>, <<"E", "LF">> }

\* Exit codes of a child.
ExitCodes == {0, 1, 2}

\* The program an a.mjs left behind by an earlier run holds.
Leftover == <<"earlier run">>

\* The ghost value of a fixture that does not exist.
NoFile == <<"absent">>

VARIABLES
    mode,            \* "compile" (test.py) or "direct" (test_examples.py)
    listing,         \* the entries of the root directory ("test" or "examples")
    artifact,        \* a.mjs: <<>> (no such file) or <<whose program it holds>>
    ran_artifact,    \* what a.mjs held when node was last started
    pc,              \* position of main()
    example_names,   \* test.py example_names / test_examples.py dirs
    i,               \* index of the case the for loop is at
    passed_count,
    skipped,         \* test.py: list of skipped names
    skipped_count,   \* test_examples.py: number of skipped cases
    expected_output,
    input_data,
    compile_proc,    \* <<>> or <<[returncode, stderr]>>
    stdout,
    stderr,
    exit_code,
    out,             \* the print() calls so far, each a sequence of tokens
    exit_status,     \* <<>> while running, <<n>> once the process has exited
    children,        \* every child process spawned so far, in order
    child_stdin,     \* <<>> or <<text>>: what the live child was given on stdin
    expected_raw,    \* bytes of the current case's expected-output file
    input_raw,       \* bytes of the current case's input file
    stdout_raw,      \* bytes the current case's last child wrote to stdout
    verdicts,        \* per resolved case: [name, verdict]
    fault,           \* <<>> or <<kind>>: the I/O or spawn error the harness met
    run,             \* 0: a single run; 1, 2: first and second of two runs
    log,             \* two runs: what the environment did at each step of run 1
    first_result     \* two runs: <<>> or <<the result of run 1>>

vars ==
    << mode, listing, artifact, ran_artifact, pc, example_names, i, passed_count, skipped, skipped_count,
       expected_output, input_data, compile_proc, stdout, stderr, exit_code,
       out, exit_status, children, child_stdin, expected_raw, input_raw,
       stdout_raw, verdicts, fault, run, log, first_result >>

----------------------------------------------------------------------------
\* Pure helpers

\* str.endswith
endswith(s, suffix) ==
    /\ Len(s) >= Len(suffix)
    /\ SubSeq(s, Len(s) - Len(suffix) + 1, Len(s)) = suffix

\* strip_ext cutting one character too few: entry[:-2]
strip_ext_two(entry) == SubSeq(entry, 1, Len(entry) - 2)

\* entry[:-3]
strip_ext(entry) == SubSeq(entry, 1, Len(entry) - 3)

\* Python's universal-newlines translation of text-mode reads (newline=None):
\* "\r\n" and a lone "\r" are both read as "\n".
RECURSIVE universal_newlines(_)
universal_newlines(raw) ==
    IF raw = <<>> THEN <<>>
    ELSE IF Head(raw) = "CR"
         THEN IF Len(raw) >= 2 /\ raw[2] = "LF"
              THEN <<"LF">> \o universal_newlines(SubSeq(raw, 3, Len(raw)))
              ELSE <<"LF">> \o universal_newlines(Tail(raw))
         ELSE <<Head(raw)>> \o universal_newlines(Tail(raw))

\* Path.read_text(): the file is opened in text mode.
read_text(raw) == universal_newlines(raw)

\* What communicate() returns for a pipe opened with text=True.
decode_pipe(raw) == universal_newlines(raw)

\* A directory listing of n entries.
Listing(n, suf, isdir) ==
    [k \in 1..n |-> [name |-> <<Stems[k]>> \o suf[k], is_dir |-> isdir[k]]]

\* The directories the harness may be run on: "test" holds files, some of them
\* .va sources (test.py never asks whether an entry is a directory);
\* "examples" holds plain files and directories (test_examples.py never looks
\* at the form of a name).
Listings(m) ==
    UNION { { Listing(n, suf, isdir) :
                suf \in [1..n -> IF m = "compile" THEN Suffixes ELSE {<<>>}],
                isdir \in [1..n -> IF m = "compile" THEN {FALSE} ELSE BOOLEAN] } :
            n \in 0..MaxEntries }

IsVa(e) == endswith(e.name, DotVa)

IsDir(e) == e.is_dir

\* test.py get_example_files: the .va entries, extension stripped.
get_example_files(entries) ==
    LET kept == SelectSeq(entries, IsVa)
    IN  [k \in 1..Len(kept) |-> strip_ext(kept[k].name)]

\* test_examples.py get_subdirs: the names of the entries that are directories.
get_subdirs(entries) ==
    LET kept == SelectSeq(entries, IsDir)
    IN  [k \in 1..Len(kept) |-> kept[k].name]

\* program_file of a case.
ProgramFile(m, name) ==
    IF m = "compile"
    THEN <<"test/">> \o name \o DotVa
    ELSE <<"examples/">> \o name \o <<"/">> \o name \o DotVa

\* expected_output_file of a case.
ExpectedOutputFile(m, name) ==
    IF m = "compile"
    THEN <<"test_output/">> \o name \o <<".txt">>
    ELSE <<"examples/">> \o name \o <<"/output.txt">>

InputFile(name) == <<"examples/">> \o name \o <<"/input.txt">>

CurName == example_names[i]

\* A finished or live child process.
Child(prog, name, running, err, rc) ==
    [prog |-> prog, name |-> name, running |-> running, stderr |-> err,
     returncode |-> rc]

\* FinishLast without the wait: the child is left running.
FinishLastStillRunning(cs, err, rc) == cs

\* The last child, now finished with this stderr and exit code.
FinishLast(cs, err, rc) ==
    [cs EXCEPT ![Len(cs)] = Child(cs[Len(cs)].prog, cs[Len(cs)].name, FALSE, err, <<rc>>)]

----------------------------------------------------------------------------
\* main() is entered in a new process: nothing is left of an earlier run but
\* what is on disk.
FreshProcess ==
    /\ ran_artifact = <<>>
    /\ pc = "discover"
    /\ example_names = <<>>
    /\ i = 1
    /\ passed_count = 0
    /\ skipped = <<>>
    /\ skipped_count = 0
    /\ expected_output = <<>>
    /\ input_data = <<>>
    /\ compile_proc = <<>>
    /\ stdout = <<>>
    /\ stderr = <<>>
    /\ exit_code = 0
    /\ out = <<>>
    /\ exit_status = <<>>
    /\ children = <<>>
    /\ child_stdin = <<>>
    /\ expected_raw = NoFile
    /\ input_raw = NoFile
    /\ stdout_raw = <<>>
    /\ verdicts = <<>>
    /\ fault = <<>>

Init ==
    /\ mode \in {"compile", "direct"}
    /\ listing \in Listings(mode)
    /\ artifact \in IF mode = "compile" THEN {<<>>, <<Leftover>>} ELSE {<<>>}
    /\ FreshProcess
    /\ run = 0
    /\ log = <<>>
    /\ first_result = <<>>

\* What every step leaves alone unless it says otherwise.
CaseLocals == << expected_output, input_data, compile_proc, stdout, stderr, exit_code >>
Tallies == << passed_count, skipped, skipped_count >>
Ghosts == << child_stdin, expected_raw, input_raw, stdout_raw >>

\* print lines; sys.exit(1)
Fatal(lines) ==
    /\ out' = out \o lines
    /\ exit_status' = <<1>>
    /\ pc' = "aborted"

----------------------------------------------------------------------------
\* Discovery

\* test.py main: example_names = get_example_files("test")
DiscoverFlat ==
    /\ UNCHANGED fault
    /\ mode = "compile"
    /\ pc = "discover"
    /\ example_names' = get_example_files(listing)
    /\ pc' = "loop"
    /\ UNCHANGED << artifact, ran_artifact, listing, mode, i, Tallies, CaseLocals, out, exit_status, children,
                    Ghosts, verdicts >>

\* test_examples.py main: dirs = get_subdirs("examples")
DiscoverDirs ==
    /\ UNCHANGED fault
    /\ mode = "direct"
    /\ pc = "discover"
    /\ example_names' = get_subdirs(listing)
    /\ pc' = "loop"
    /\ UNCHANGED << artifact, ran_artifact, listing, mode, i, Tallies, CaseLocals, out, exit_status, children,
                    Ghosts, verdicts >>

\* DiscoverError swallowed: the error is printed and the run goes on as if the
\* directory were empty.
DiscoverErrorSwallowed ==
    /\ fault' = <<"discovery">>
    /\ pc = "discover"
    /\ out' = out \o << IF mode = "compile"
                        THEN <<"Error reading directory: ", "OSError">>
                        ELSE <<"Error reading subdirectories: ", "OSError">> >>
    /\ example_names' = <<>>
    /\ pc' = "loop"
    /\ UNCHANGED << artifact, ran_artifact, listing, mode, i, Tallies, CaseLocals, exit_status, children,
                    Ghosts, verdicts >>

\* os.listdir raises OSError: print(e); sys.exit(1)
DiscoverError ==
    /\ fault' = <<"discovery">>
    /\ pc = "discover"
    /\ Fatal(<< IF mode = "compile"
                THEN <<"Error reading directory: ", "OSError">>
                ELSE <<"Error reading subdirectories: ", "OSError">> >>)
    /\ UNCHANGED << artifact, ran_artifact, listing, mode, example_names, i, Tallies, CaseLocals, children,
                    Ghosts, verdicts >>

----------------------------------------------------------------------------
\* Fixture resolution

\* The for loop is exhausted.
LoopEnd ==
    /\ UNCHANGED fault
    /\ pc = "loop"
    /\ i > Len(example_names)
    /\ pc' = "report"
    /\ child_stdin' = <<>>
    /\ expected_raw' = NoFile
    /\ input_raw' = NoFile
    /\ stdout_raw' = <<>>
    /\ UNCHANGED << artifact, ran_artifact, listing, mode, example_names, i, Tallies, CaseLocals, out,
                    exit_status, children, verdicts >>

\* SkipCompile without the `continue`: the case is recorded as skipped and
\* then resolved and run like any other.
SkipCompileNoContinue ==
    /\ UNCHANGED fault
    /\ mode = "compile"
    /\ pc = "loop"
    /\ i <= Len(example_names)
    /\ skipped' = Append(skipped, CurName)
    /\ verdicts' = Append(verdicts, [name |-> CurName, verdict |-> "skipped"])
    /\ pc' = "read_expected"
    /\ child_stdin' = <<>>
    /\ expected_raw' = NoFile
    /\ input_raw' = NoFile
    /\ stdout_raw' = <<>>
    /\ UNCHANGED << artifact, ran_artifact, listing, mode, i, example_names, passed_count, skipped_count,
                    CaseLocals, out, exit_status, children >>

\* test.py: expected_output_file does not exist: skipped.append(name); continue
SkipCompile ==
    /\ UNCHANGED fault
    /\ mode = "compile"
    /\ pc = "loop"
    /\ i <= Len(example_names)
    /\ skipped' = Append(skipped, CurName)
    /\ i' = i + 1
    /\ verdicts' = Append(verdicts, [name |-> CurName, verdict |-> "skipped"])
    /\ child_stdin' = <<>>
    /\ expected_raw' = NoFile
    /\ input_raw' = NoFile
    /\ stdout_raw' = <<>>
    /\ UNCHANGED << artifact, ran_artifact, listing, mode, pc, example_names, passed_count, skipped_count,
                    CaseLocals, out, exit_status, children >>

\* SkipDirect without the count: the case is passed over and skipped_count
\* stays as it was.
SkipDirectUncounted ==
    /\ UNCHANGED fault
    /\ mode = "direct"
    /\ pc = "loop"
    /\ i <= Len(example_names)
    /\ skipped_count' = skipped_count
    /\ i' = i + 1
    /\ verdicts' = Append(verdicts, [name |-> CurName, verdict |-> "skipped"])
    /\ child_stdin' = <<>>
    /\ expected_raw' = NoFile
    /\ input_raw' = NoFile
    /\ stdout_raw' = <<>>
    /\ UNCHANGED << artifact, ran_artifact, listing, mode, pc, example_names, passed_count, skipped,
                    CaseLocals, out, exit_status, children >>

\* test_examples.py: expected_output_file does not exist: skipped_count += 1; continue
SkipDirect ==
    /\ UNCHANGED fault
    /\ mode = "direct"
    /\ pc = "loop"
    /\ i <= Len(example_names)
    /\ skipped_count' = skipped_count + 1
    /\ i' = i + 1
    /\ verdicts' = Append(verdicts, [name |-> CurName, verdict |-> "skipped"])
    /\ child_stdin' = <<>>
    /\ expected_raw' = NoFile
    /\ input_raw' = NoFile
    /\ stdout_raw' = <<>>
    /\ UNCHANGED << artifact, ran_artifact, listing, mode, pc, example_names, passed_count, skipped,
                    CaseLocals, out, exit_status, children >>

\* expected_output_file.exists() is true: fall through to the read.
ExpectedExists ==
    /\ UNCHANGED fault
    /\ pc = "loop"
    /\ i <= Len(example_names)
    /\ \E raw \in RawTexts : expected_raw' = raw
    /\ pc' = "read_expected"
    /\ child_stdin' = <<>>
    /\ input_raw' = NoFile
    /\ stdout_raw' = <<>>
    /\ UNCHANGED << artifact, ran_artifact, listing, mode, example_names, i, Tallies, CaseLocals, out,
                    exit_status, children, verdicts >>

\* expected_output = expected_output_file.read_text()
ReadExpected ==
    /\ UNCHANGED fault
    /\ pc = "read_expected"
    /\ expected_output' = read_text(expected_raw)
    /\ pc' = IF mode = "compile" THEN "compile" ELSE "resolve_input"
    /\ UNCHANGED << artifact, ran_artifact, listing, mode, example_names, i, Tallies, input_data, compile_proc,
                    stdout, stderr, exit_code, out, exit_status, children,
                    Ghosts, verdicts >>

\* read_text raises OSError: print; sys.exit(1)
ReadExpectedError ==
    /\ fault' = <<"fixture">>
    /\ pc = "read_expected"
    /\ Fatal(<< <<"Failed to read ">> \o ExpectedOutputFile(mode, CurName)
                \o <<": ", "OSError">> >>)
    /\ UNCHANGED << artifact, ran_artifact, listing, mode, example_names, i, Tallies, CaseLocals, children,
                    Ghosts, verdicts >>

\* test_examples.py: input.txt does not exist: input_data = ""
InputAbsent ==
    /\ UNCHANGED fault
    /\ pc = "resolve_input"
    /\ input_raw' = NoFile
    /\ input_data' = <<>>
    /\ pc' = "popen"
    /\ UNCHANGED << artifact, ran_artifact, listing, mode, example_names, i, Tallies, expected_output,
                    compile_proc, stdout, stderr, exit_code, out, exit_status,
                    children, child_stdin, expected_raw, stdout_raw, verdicts >>

\* test_examples.py: input.txt exists: input_data = input_file.read_text()
InputRead ==
    /\ UNCHANGED fault
    /\ pc = "resolve_input"
    /\ \E raw \in RawTexts :
         /\ input_raw' = raw
         /\ input_data' = read_text(raw)
    /\ pc' = "popen"
    /\ UNCHANGED << artifact, ran_artifact, listing, mode, example_names, i, Tallies, expected_output,
                    compile_proc, stdout, stderr, exit_code, out, exit_status,
                    children, child_stdin, expected_raw, stdout_raw, verdicts >>

\* test_examples.py: input.txt exists and read_text raises OSError
InputReadError ==
    /\ fault' = <<"input">>
    /\ pc = "resolve_input"
    /\ \E raw \in RawTexts : input_raw' = raw
    /\ Fatal(<< <<"Failed to read ">> \o InputFile(CurName) \o <<": ", "OSError">> >>)
    /\ UNCHANGED << artifact, ran_artifact, listing, mode, example_names, i, Tallies, CaseLocals, children,
                    child_stdin, expected_raw, stdout_raw, verdicts >>

----------------------------------------------------------------------------
\* Process execution

\* The compiler's side of the artifact contract: a run that ends with exit
\* code 0 and empty stderr has written a.mjs for its source; any other run may
\* or may not have written it.
ArtifactAfterCompile(old, name, rc, err) ==
    IF rc = 0 /\ err = <<>> THEN { <<name>> } ELSE { old, <<name>> }

\* test.py: compile_proc = subprocess.run([verbena, program_file], capture_output, text)
CompileRun ==
    /\ UNCHANGED fault
    /\ pc = "compile"
    /\ \E rc \in ExitCodes, err \in RawErrs :
         /\ compile_proc' = << [returncode |-> rc, stderr |-> decode_pipe(err)] >>
         /\ children' = Append(children,
                Child("compiler", CurName, FALSE, decode_pipe(err), <<rc>>))
         /\ artifact' \in ArtifactAfterCompile(artifact, CurName, rc, decode_pipe(err))
    /\ pc' = "check_compile"
    /\ UNCHANGED << ran_artifact, listing, mode, example_names, i, Tallies, expected_output, input_data,
                    stdout, stderr, exit_code, out, exit_status, Ghosts, verdicts >>

\* test.py: subprocess.run raises (the compiler cannot be started)
CompileSpawnError ==
    /\ fault' = <<"spawn">>
    /\ pc = "compile"
    /\ Fatal(<< ProgramFile(mode, CurName),
                <<"Failed to run compiler: ", "Exception">> >>)
    /\ UNCHANGED << artifact, ran_artifact, listing, mode, example_names, i, Tallies, CaseLocals, children,
                    Ghosts, verdicts >>

\* CheckCompile without the returncode test: node is run whatever the compiler did.
CheckCompileIgnored ==
    /\ UNCHANGED fault
    /\ pc = "check_compile"
    /\ pc' = "popen"
    /\ UNCHANGED << artifact, ran_artifact, listing, mode, example_names, i, Tallies, CaseLocals, out, exit_status,
                    children, Ghosts, verdicts >>

\* test.py: if compile_proc.returncode != 0: print, print, sys.exit(1)
CheckCompile ==
    /\ UNCHANGED fault
    /\ pc = "check_compile"
    /\ IF compile_proc[1].returncode # 0
       THEN Fatal(<< ProgramFile(mode, CurName),
                     <<"Failed to compile: ">> \o compile_proc[1].stderr >>)
       ELSE /\ pc' = "popen"
            /\ UNCHANGED << out, exit_status >>
    /\ UNCHANGED << artifact, ran_artifact, listing, mode, example_names, i, Tallies, CaseLocals, children,
                    Ghosts, verdicts >>

\* test.py: proc = subprocess.Popen(["node", "a.mjs"], stdout=PIPE, stderr=PIPE, text=True)
PopenNode ==
    /\ UNCHANGED fault
    /\ mode = "compile"
    /\ pc = "popen"
    /\ children' = Append(children, Child("node", CurName, TRUE, <<>>, <<>>))
    /\ ran_artifact' = artifact
    /\ pc' = "communicate"
    /\ UNCHANGED << artifact, listing, mode, example_names, i, Tallies, CaseLocals, out,
                    exit_status, Ghosts, verdicts >>

\* test_examples.py: proc = subprocess.Popen([verbena, program_file], stdin=PIPE, ...)
PopenInterpreter ==
    /\ UNCHANGED fault
    /\ mode = "direct"
    /\ pc = "popen"
    /\ children' = Append(children, Child("interpreter", CurName, TRUE, <<>>, <<>>))
    /\ pc' = "communicate"
    /\ UNCHANGED << artifact, ran_artifact, listing, mode, example_names, i, Tallies, CaseLocals, out,
                    exit_status, Ghosts, verdicts >>

\* PopenError taken as a failure of that case only: print, print, next case.
PopenErrorSkipsCase ==
    /\ fault' = <<"spawn">>
    /\ pc = "popen"
    /\ out' = out \o << ProgramFile(mode, CurName),
                        IF mode = "compile"
                        THEN <<"Failed to run node on compiled output: ", "Exception">>
                        ELSE <<"Failed to run interpreter: ", "Exception">> >>
    /\ verdicts' = Append(verdicts, [name |-> CurName, verdict |-> "mismatched"])
    /\ i' = i + 1
    /\ pc' = "loop"
    /\ UNCHANGED << artifact, ran_artifact, listing, mode, example_names, Tallies, CaseLocals, exit_status,
                    children, Ghosts >>

\* Popen raises: print, print, sys.exit(1)
PopenError ==
    /\ fault' = <<"spawn">>
    /\ pc = "popen"
    /\ Fatal(<< ProgramFile(mode, CurName),
                IF mode = "compile"
                THEN <<"Failed to run node on compiled output: ", "Exception">>
                ELSE <<"Failed to run interpreter: ", "Exception">> >>)
    /\ UNCHANGED << artifact, ran_artifact, listing, mode, example_names, i, Tallies, CaseLocals, children,
                    Ghosts, verdicts >>

\* StdinGiven with the input forgotten: communicate(input="").
StdinGivenNothing == IF mode = "direct" THEN << <<>> >> ELSE <<>>

\* What communicate() writes to the child's stdin: input_data in
\* test_examples.py (communicate(input=input_data)), nothing in test.py.
StdinGiven == IF mode = "direct" THEN <<input_data>> ELSE <<>>

\* stdout, stderr = proc.communicate(...); exit_code = proc.returncode
Communicate ==
    /\ UNCHANGED fault
    /\ pc = "communicate"
    /\ child_stdin' = StdinGiven
    /\ \E raw \in RawTexts, err \in RawErrs, rc \in ExitCodes :
         /\ stdout_raw' = raw
         /\ stdout' = decode_pipe(raw)
         /\ stderr' = decode_pipe(err)
         /\ exit_code' = rc
         /\ children' = FinishLast(children, decode_pipe(err), rc)
    /\ pc' = "check_result"
    /\ UNCHANGED << artifact, ran_artifact, listing, mode, example_names, i, Tallies, expected_output, input_data,
                    compile_proc, out, exit_status, expected_raw, input_raw,
                    verdicts >>

\* communicate raises: print, print, sys.exit(1)
CommunicateError ==
    /\ fault' = <<"communicate">>
    /\ pc = "communicate"
    /\ Fatal(<< ProgramFile(mode, CurName),
                <<"Failed during program execution: ", "Exception">> >>)
    /\ UNCHANGED << artifact, ran_artifact, listing, mode, example_names, i, Tallies, CaseLocals, children,
                    Ghosts, verdicts >>

\* if stderr: ... sys.exit(1); if exit_code != 0: ... sys.exit(1)
CheckResult ==
    /\ UNCHANGED fault
    /\ pc = "check_result"
    /\ IF stderr # <<>>
       THEN Fatal(<< ProgramFile(mode, CurName), stderr >>)
       ELSE IF exit_code # 0
            THEN Fatal(<< ProgramFile(mode, CurName),
                          <<"Exit code ", ToString(exit_code)>> >>)
            ELSE /\ pc' = "compare"
                 /\ UNCHANGED << out, exit_status >>
    /\ UNCHANGED << artifact, ran_artifact, listing, mode, example_names, i, Tallies, CaseLocals, children,
                    Ghosts, verdicts >>

----------------------------------------------------------------------------
\* Result comparison

\* The print of a mismatch.
MismatchText(expected, actual) ==
    <<"Output doesn't match expected.", "LF", "Expected:", "LF">> \o expected
        \o <<"LF", "Actual:", "LF">> \o actual

\* stdout == expected_output
OutputsMatch(actual, expected) == actual = expected

\* Compare with the increment outside the if: a mismatch is counted as passed.
CompareCountsAll ==
    /\ UNCHANGED fault
    /\ pc = "compare"
    /\ passed_count' = passed_count + 1
    /\ IF OutputsMatch(stdout, expected_output)
       THEN /\ out' = out
            /\ verdicts' = Append(verdicts, [name |-> CurName, verdict |-> "passed"])
       ELSE /\ out' = out \o << ProgramFile(mode, CurName),
                                MismatchText(expected_output, stdout) >>
            /\ verdicts' = Append(verdicts, [name |-> CurName, verdict |-> "mismatched"])
    /\ i' = i + 1
    /\ pc' = "loop"
    /\ UNCHANGED << artifact, ran_artifact, listing, mode, example_names, skipped, skipped_count, CaseLocals,
                    exit_status, children, Ghosts >>

\* Compare that runs a mismatched case again instead of moving on.
CompareRetry ==
    /\ UNCHANGED fault
    /\ pc = "compare"
    /\ IF OutputsMatch(stdout, expected_output)
       THEN /\ passed_count' = passed_count + 1
            /\ out' = out
            /\ verdicts' = Append(verdicts, [name |-> CurName, verdict |-> "passed"])
            /\ i' = i + 1
            /\ pc' = "loop"
       ELSE /\ passed_count' = passed_count
            /\ out' = out \o << ProgramFile(mode, CurName),
                                MismatchText(expected_output, stdout) >>
            /\ verdicts' = verdicts
            /\ i' = i
            /\ pc' = IF mode = "compile" THEN "compile" ELSE "popen"
    /\ UNCHANGED << artifact, ran_artifact, listing, mode, example_names, skipped, skipped_count, CaseLocals,
                    exit_status, children, Ghosts >>

\* if stdout == expected_output: passed_count += 1; else: print, print
Compare ==
    /\ UNCHANGED fault
    /\ pc = "compare"
    /\ IF OutputsMatch(stdout, expected_output)
       THEN /\ passed_count' = passed_count + 1
            /\ out' = out
            /\ verdicts' = Append(verdicts, [name |-> CurName, verdict |-> "passed"])
       ELSE /\ passed_count' = passed_count
            /\ out' = out \o << ProgramFile(mode, CurName),
                                MismatchText(expected_output, stdout) >>
            /\ verdicts' = Append(verdicts, [name |-> CurName, verdict |-> "mismatched"])
    /\ i' = i + 1
    /\ pc' = "loop"
    /\ UNCHANGED << artifact, ran_artifact, listing, mode, example_names, skipped, skipped_count, CaseLocals,
                    exit_status, children, Ghosts >>

----------------------------------------------------------------------------
\* Aggregate reporting

PassedLine(n) == <<"Passed : ", ToString(n)>>

SkippedLine(n) == <<"Skipped: ", ToString(n)>>

\* test.py: print Passed, print Skipped, print every skipped name
ReportCompile ==
    /\ UNCHANGED fault
    /\ mode = "compile"
    /\ pc = "report"
    /\ out' = out \o << PassedLine(passed_count), SkippedLine(Len(skipped)) >>
                  \o skipped
    /\ exit_status' = <<0>>
    /\ pc' = "done"
    /\ UNCHANGED << artifact, ran_artifact, listing, mode, example_names, i, Tallies, CaseLocals, children,
                    Ghosts, verdicts >>

\* test_examples.py: print Passed, print Skipped
ReportDirect ==
    /\ UNCHANGED fault
    /\ mode = "direct"
    /\ pc = "report"
    /\ out' = out \o << PassedLine(passed_count), SkippedLine(skipped_count) >>
    /\ exit_status' = <<0>>
    /\ pc' = "done"
    /\ UNCHANGED << artifact, ran_artifact, listing, mode, example_names, i, Tallies, CaseLocals, children,
                    Ghosts, verdicts >>

----------------------------------------------------------------------------
\* The variables of the two-run specification, which a single run leaves alone.
TwoRuns == << run, log, first_result >>

Next ==
    \/ DiscoverFlat /\ UNCHANGED TwoRuns
    \/ DiscoverDirs /\ UNCHANGED TwoRuns
    \/ DiscoverError /\ UNCHANGED TwoRuns
    \/ LoopEnd /\ UNCHANGED TwoRuns
    \/ SkipCompile /\ UNCHANGED TwoRuns
    \/ SkipDirect /\ UNCHANGED TwoRuns
    \/ ExpectedExists /\ UNCHANGED TwoRuns
    \/ ReadExpected /\ UNCHANGED TwoRuns
    \/ ReadExpectedError /\ UNCHANGED TwoRuns
    \/ InputAbsent /\ UNCHANGED TwoRuns
    \/ InputRead /\ UNCHANGED TwoRuns
    \/ InputReadError /\ UNCHANGED TwoRuns
    \/ CompileRun /\ UNCHANGED TwoRuns
    \/ CompileSpawnError /\ UNCHANGED TwoRuns
    \/ CheckCompile /\ UNCHANGED TwoRuns
    \/ PopenNode /\ UNCHANGED TwoRuns
    \/ PopenInterpreter /\ UNCHANGED TwoRuns
    \/ PopenError /\ UNCHANGED TwoRuns
    \/ Communicate /\ UNCHANGED TwoRuns
    \/ CommunicateError /\ UNCHANGED TwoRuns
    \/ CheckResult /\ UNCHANGED TwoRuns
    \/ Compare /\ UNCHANGED TwoRuns
    \/ ReportCompile /\ UNCHANGED TwoRuns
    \/ ReportDirect /\ UNCHANGED TwoRuns

Spec == Init /\ [][Next]_vars

----------------------------------------------------------------------------
\* Two runs of the harness, one after the other, on the same corpus and with
\* children that behave the same way.

\* What the environment has done so far in the case at hand: the fixtures
\* found, the error met, the children and what they wrote.
Obs == << fault, expected_raw, input_raw, stdout_raw, children >>

\* What a run reports: the tallies, the skip list, the verdicts, where it was
\* aborted and the exit status.
Result ==
    [ passed |-> passed_count, skipped_n |-> IF mode = "compile" THEN Len(skipped) ELSE skipped_count,
      skipped |-> skipped, verdicts |-> verdicts,
      aborted_at |-> IF pc = "aborted" THEN <<i>> ELSE <<>>,
      status |-> exit_status ]

\* The file contents and child outputs that the two runs are checked with.
TwoRunTexts == {NoFile, <<>>, <<"2", "0", "LF">>}

\* Run 1 records what the environment does; run 2 meets the same environment.
Record ==
    /\ first_result' = first_result
    /\ run' = run
    /\ IF run = 1
       THEN /\ {expected_raw', input_raw', stdout_raw'} \subseteq TwoRunTexts
            /\ log' = Append(log, Obs')
       ELSE /\ log # <<>>
            /\ Obs' = Head(log)
            /\ log' = Tail(log)

\* RunAgain with the tallies kept from the first run.
RunAgainKeepsTallies ==
    /\ run = 1
    /\ pc \in {"done", "aborted"}
    /\ first_result' = <<Result>>
    /\ run' = 2
    /\ pc' = "discover"
    /\ example_names' = <<>>
    /\ i' = 1
    /\ out' = <<>>
    /\ exit_status' = <<>>
    /\ children' = <<>>
    /\ child_stdin' = <<>>
    /\ expected_raw' = NoFile
    /\ input_raw' = NoFile
    /\ stdout_raw' = <<>>
    /\ verdicts' = <<>>
    /\ fault' = <<>>
    /\ ran_artifact' = <<>>
    /\ UNCHANGED << mode, listing, artifact, log, Tallies, CaseLocals >>

\* The script is started a second time: main() begins again in a new process
\* (passed_count = 0, skipped = []); the directory and a.mjs are as run 1 left them.
RunAgain ==
    /\ run = 1
    /\ pc \in {"done", "aborted"}
    /\ first_result' = <<Result>>
    /\ run' = 2
    /\ pc' = "discover"
    /\ example_names' = <<>>
    /\ i' = 1
    /\ passed_count' = 0
    /\ skipped' = <<>>
    /\ skipped_count' = 0
    /\ expected_output' = <<>>
    /\ input_data' = <<>>
    /\ compile_proc' = <<>>
    /\ stdout' = <<>>
    /\ stderr' = <<>>
    /\ exit_code' = 0
    /\ out' = <<>>
    /\ exit_status' = <<>>
    /\ children' = <<>>
    /\ child_stdin' = <<>>
    /\ expected_raw' = NoFile
    /\ input_raw' = NoFile
    /\ stdout_raw' = <<>>
    /\ verdicts' = <<>>
    /\ fault' = <<>>
    /\ ran_artifact' = <<>>
    /\ UNCHANGED << mode, listing, artifact, log >>

InitTwice ==
    /\ mode \in {"compile", "direct"}
    /\ listing \in Listings(mode)
    /\ artifact \in IF mode = "compile" THEN {<<>>, <<Leftover>>} ELSE {<<>>}
    /\ FreshProcess
    /\ run = 1
    /\ log = <<>>
    /\ first_result = <<>>

NextTwice ==
    \/ DiscoverFlat /\ Record
    \/ DiscoverDirs /\ Record
    \/ DiscoverError /\ Record
    \/ LoopEnd /\ Record
    \/ SkipCompile /\ Record
    \/ SkipDirect /\ Record
    \/ ExpectedExists /\ Record
    \/ ReadExpected /\ Record
    \/ ReadExpectedError /\ Record
    \/ InputAbsent /\ Record
    \/ InputRead /\ Record
    \/ InputReadError /\ Record
    \/ CompileRun /\ Record
    \/ CompileSpawnError /\ Record
    \/ CheckCompile /\ Record
    \/ PopenNode /\ Record
    \/ PopenInterpreter /\ Record
    \/ PopenError /\ Record
    \/ Communicate /\ Record
    \/ CommunicateError /\ Record
    \/ CheckResult /\ Record
    \/ Compare /\ Record
    \/ ReportCompile /\ Record
    \/ ReportDirect /\ Record
    \/ RunAgain

SpecTwice == InitTwice /\ [][NextTwice]_vars

----------------------------------------------------------------------------
\* The two harnesses, one after the other, on the same sequence of cases with
\* the same fixtures and the same final child result for every case; the
\* compiler succeeds silently and no file or process operation raises.

\* What the environment gave the case at hand: the expected-output file and
\* what the last child of the case wrote and returned.
CaseGiven ==
    [ expected |-> expected_raw, stdout |-> stdout_raw, stderr |-> stderr,
      returncode |-> exit_code ]

\* What a run comes to, in terms both harnesses have.
Outcome ==
    [ passed |-> passed_count,
      skipped_n |-> IF mode = "compile" THEN Len(skipped) ELSE skipped_count,
      verdicts |-> verdicts,
      aborted_at |-> IF pc = "aborted" THEN <<i>> ELSE <<>>,
      status |-> exit_status ]

\* The file contents and child outputs that the two modes are checked with.
TwoModeTexts == {NoFile, <<>>, <<"2", "0", "LF">>, <<"2", "0", "CR", "LF">>}

\* Run 3 (test.py) records what each case is given as soon as the case is
\* passed over or its last child has ended; run 4 (test_examples.py) is given
\* the same for the case at the same position.
RecordCase ==
    /\ first_result' = first_result
    /\ run' = run
    /\ {expected_raw', input_raw', stdout_raw'} \subseteq TwoModeTexts
    /\ IF run = 3
       THEN /\ pc' = "check_compile" =>
                  compile_proc' = << [returncode |-> 0, stderr |-> <<>>] >>
            /\ log' = IF pc' = "check_result" \/ (pc = "loop" /\ pc' = "loop")
                      THEN Append(log, CaseGiven')
                      ELSE log
       ELSE /\ log' = log
            /\ (pc = "loop" /\ pc' # "report") =>
                  /\ i <= Len(log)
                  /\ expected_raw' = log[i].expected
            /\ pc' = "check_result" =>
                  /\ stdout_raw' = log[i].stdout
                  /\ stderr' = log[i].stderr
                  /\ exit_code' = log[i].returncode

\* test_examples.py is started after test.py has ended: main() begins in a new
\* process (passed_count = 0, skipped_count = 0) on a directory of examples
\* whose subdirectories are the cases test.py went through.
RunOtherMode ==
    /\ run = 3
    /\ pc \in {"done", "aborted"}
    /\ first_result' = <<Outcome>>
    /\ run' = 4
    /\ mode' = "direct"
    /\ listing' \in {l \in Listings("direct") : get_subdirs(l) = example_names}
    /\ pc' = "discover"
    /\ example_names' = <<>>
    /\ i' = 1
    /\ passed_count' = 0
    /\ skipped' = <<>>
    /\ skipped_count' = 0
    /\ expected_output' = <<>>
    /\ input_data' = <<>>
    /\ compile_proc' = <<>>
    /\ stdout' = <<>>
    /\ stderr' = <<>>
    /\ exit_code' = 0
    /\ out' = <<>>
    /\ exit_status' = <<>>
    /\ children' = <<>>
    /\ child_stdin' = <<>>
    /\ expected_raw' = NoFile
    /\ input_raw' = NoFile
    /\ stdout_raw' = <<>>
    /\ verdicts' = <<>>
    /\ fault' = <<>>
    /\ ran_artifact' = <<>>
    /\ UNCHANGED << artifact, log >>

InitModes ==
    /\ mode = "compile"
    /\ listing \in Listings(mode)
    /\ artifact \in {<<>>, <<Leftover>>}
    /\ FreshProcess
    /\ run = 3
    /\ log = <<>>
    /\ first_result = <<>>

NextModes ==
    \/ DiscoverFlat /\ RecordCase
    \/ DiscoverDirs /\ RecordCase
    \/ LoopEnd /\ RecordCase
    \/ SkipCompile /\ RecordCase
    \/ SkipDirect /\ RecordCase
    \/ ExpectedExists /\ RecordCase
    \/ ReadExpected /\ RecordCase
    \/ InputAbsent /\ RecordCase
    \/ InputRead /\ RecordCase
    \/ CompileRun /\ RecordCase
    \/ CheckCompile /\ RecordCase
    \/ PopenNode /\ RecordCase
    \/ PopenInterpreter /\ RecordCase
    \/ Communicate /\ RecordCase
    \/ CheckResult /\ RecordCase
    \/ Compare /\ RecordCase
    \/ ReportCompile /\ RecordCase
    \/ ReportDirect /\ RecordCase
    \/ RunOtherMode

SpecModes == InitModes /\ [][NextModes]_vars

----------------------------------------------------------------------------
\* What the claims speak of

\* The skipped tally of the running script.
SkippedTally == IF mode = "compile" THEN Len(skipped) ELSE skipped_count

\* How many cases got this verdict.
CountVerdict(v) == Cardinality({k \in 1..Len(verdicts) : verdicts[k].verdict = v})

\* The names of the cases whose expected-output file was absent.
SkippedNames == {verdicts[k].name : k \in {j \in 1..Len(verdicts) : verdicts[j].verdict = "skipped"}}

\* The print() calls that begin with this token.
LinesStarting(tok) == {k \in 1..Len(out) : out[k] # <<>> /\ out[k][1] = tok}

\* The number of mismatch reports printed.
MismatchesPrinted == Cardinality(LinesStarting("Output doesn't match expected."))

\* A child that has ended with something on stderr or a non-zero exit code.
ChildFailed(c) == ~c.running /\ (c.stderr # <<>> \/ c.returncode # <<0>>)

\* The children spawned for this case by this program.
ChildrenOf(name, prog) ==
    {k \in 1..Len(children) : children[k].name = name /\ children[k].prog = prog}

\* A fatal condition of the spec's list has occurred: an I/O or spawn error,
\* or a child that ended with stderr output or a non-zero exit code.
FatalConditionOccurred ==
    \/ fault # <<>>
    \/ \E k \in 1..Len(children) : ChildFailed(children[k])

\* The run was aborted while a case was being processed.
AbortedInCase == pc = "aborted" /\ i <= Len(example_names)

----------------------------------------------------------------------------
\* C1: in both modes, once any child of a case (compiler, node, interpreter)
\* has ended with non-empty stderr or a non-zero exit code, the harness does
\* nothing but look at that result and terminate with a non-zero status: no
\* later child is spawned and no later case is processed.
C1_ChildFailureAbortsRun ==
    \A k \in 1..Len(children) :
        ChildFailed(children[k]) =>
            /\ k = Len(children)
            /\ \/ pc \in {"check_compile", "check_result"}
               \/ pc = "aborted" /\ exit_status = <<1>>

\* C2: a case whose expected-output file is absent adds exactly one to the
\* skipped tally, has no process spawned for it, never aborts the run, and the
\* loop goes on; only cases whose expected-output file exists are executed.
C2_SkipIffNoExpected ==
    /\ SkippedTally = CountVerdict("skipped")
    /\ i = Len(verdicts) + 1
    /\ \A k \in 1..Len(verdicts) :
          verdicts[k].verdict = "skipped" =>
              \A c \in 1..Len(children) : children[c].name # verdicts[k].name
    /\ \A c \in 1..Len(children) :
          \/ \E k \in 1..Len(verdicts) :
                /\ verdicts[k].name = children[c].name
                /\ verdicts[k].verdict # "skipped"
          \/ /\ i <= Len(example_names)
             /\ children[c].name = CurName
             /\ expected_raw # NoFile
    /\ AbortedInCase => expected_raw # NoFile
    /\ pc \in {"read_expected", "resolve_input", "compile", "check_compile",
               "popen", "communicate", "check_result", "compare"}
          => expected_raw # NoFile

\* A finished run in which a case was skipped and another one was executed.
C2_Witness ==
    /\ pc = "done"
    /\ CountVerdict("skipped") >= 1
    /\ Len(children) >= 1

\* C3: in compile-then-run mode node is spawned for a case only after the
\* compiler run of that same case has ended with exit code 0; after a non-zero
\* compiler exit the harness prints the case path and the compiler's stderr,
\* exits with status 1 and spawns nothing more.
C3_NodeOnlyAfterCompilerSucceeded ==
    mode = "compile" =>
        /\ \A k \in 1..Len(children) :
              children[k].prog = "node" =>
                  /\ k > 1
                  /\ children[k - 1].prog = "compiler"
                  /\ children[k - 1].name = children[k].name
                  /\ ~children[k - 1].running
                  /\ children[k - 1].returncode = <<0>>
        /\ \A k \in 1..Len(children) :
              (children[k].prog = "compiler" /\ children[k].returncode # <<0>>) =>
                  /\ k = Len(children)
                  /\ \/ pc = "check_compile"
                     \/ /\ pc = "aborted"
                        /\ exit_status = <<1>>
                        /\ Len(out) >= 2
                        /\ out[Len(out) - 1] = ProgramFile("compile", children[k].name)
                        /\ out[Len(out)] = <<"Failed to compile: ">> \o children[k].stderr

\* The second case's compiler exits with code 2 and stderr output, after a
\* first case that was compiled and run.
C3_Witness ==
    /\ mode = "compile"
    /\ pc = "aborted"
    /\ Len(children) = 3
    /\ children[2].prog = "node"
    /\ children[3].prog = "compiler"
    /\ children[3].returncode = <<2>>
    /\ children[3].stderr # <<>>

\* C4: a compared case is counted as passed iff the bytes the child wrote to
\* stdout are exactly the bytes of the expected-output file, nothing being
\* normalised.
C4_PassedIffExactlyEqual ==
    /\ passed_count = CountVerdict("passed")
    /\ (pc = "loop" /\ expected_raw # NoFile) =>
          (verdicts[Len(verdicts)].verdict = "passed" <=> stdout_raw = expected_raw)

\* C5: a mismatch never aborts the run; a run without a fatal condition ends
\* with the summary and status 0; the exit status is non-zero iff a fatal
\* condition (I/O error, spawn failure, non-zero exit or stderr from a child)
\* occurred.
C5_ExitStatusIffFatal ==
    /\ pc = "done" => exit_status = <<0>>
    /\ pc = "aborted" => exit_status = <<1>>
    /\ pc \in {"done", "aborted"} =>
          (exit_status # <<0>> <=> FatalConditionOccurred)

\* C6: in a run that completes, every discovered case has exactly one verdict
\* and the printed passed count is the number of discovered cases minus the
\* skipped ones minus the mismatched ones.
C6_PassedPlusSkippedPlusMismatched ==
    pc = "done" =>
        /\ Len(verdicts) = Len(example_names)
        /\ \A k \in 1..Len(verdicts) : verdicts[k].name = example_names[k]
        /\ passed_count = Len(example_names) - SkippedTally - MismatchesPrinted
        /\ \E k \in 1..Len(out) :
              out[k] = PassedLine(Len(example_names) - SkippedTally - MismatchesPrinted)
        /\ \E k \in 1..Len(out) : out[k] = SkippedLine(CountVerdict("skipped"))

\* A completed run with a mismatched case and a skipped case.
C6_Witness ==
    /\ pc = "done"
    /\ MismatchesPrinted >= 1
    /\ SkippedTally >= 1

\* C7: in both modes the lines printed after the two totals are the
\* identifiers of exactly the cases whose expected-output file was absent.
C7_SkippedIdsPrinted ==
    pc = "done" =>
        LET t == CHOOSE k \in LinesStarting("Skipped: ") : TRUE
        IN  {out[k] : k \in (t + 1)..Len(out)} = SkippedNames

\* C8: a run that hits a fatal condition never prints the summary and ends with
\* a non-zero status; the summary is printed exactly once, and only when every
\* discovered case has been processed.
C8_FatalBypassesReporting ==
    /\ FatalConditionOccurred =>
          /\ LinesStarting("Passed : ") = {}
          /\ exit_status # <<0>>
    /\ Cardinality(LinesStarting("Passed : ")) <= 1
    /\ LinesStarting("Passed : ") # {} => Len(verdicts) = Len(example_names)
    /\ pc = "done" => Cardinality(LinesStarting("Passed : ")) = 1

\* C9: in direct-run mode the interpreter's stdin is the text of the case's
\* input file when it exists and the empty string when it does not; a missing
\* input file is no fixture error and the case is run.
C9_InputOrEmpty ==
    mode = "direct" =>
        LET want == IF input_raw = NoFile THEN <<>> ELSE read_text(input_raw)
        IN  /\ pc \in {"popen", "communicate", "check_result", "compare"}
                  => input_data = want
            /\ child_stdin # <<>> => child_stdin = <<want>>
            /\ pc \in {"check_result", "compare"} => child_stdin # <<>>
            /\ fault = <<"input">> => input_raw # NoFile

\* A runnable case without input file whose interpreter got "" on stdin.
C9_Witness ==
    /\ mode = "direct"
    /\ pc = "compare"
    /\ input_raw = NoFile
    /\ child_stdin = << <<>> >>

\* C10: no case is executed twice, and in a completed run every runnable case
\* has exactly one verdict and exactly one interpreter spawn (direct-run) or
\* exactly one compiler spawn followed by exactly one node spawn
\* (compile-then-run).
C10_OneExecutionPerRunnableCase ==
    /\ \A j, k \in 1..Len(children) :
          (j < k /\ children[j].name = children[k].name)
              => children[j].prog # children[k].prog
    /\ pc = "done" =>
          \A k \in 1..Len(verdicts) :
              LET name == verdicts[k].name
              IN  /\ Cardinality({j \in 1..Len(verdicts) : verdicts[j].name = name}) = 1
                  /\ verdicts[k].verdict # "skipped" =>
                        IF mode = "direct"
                        THEN /\ Cardinality(ChildrenOf(name, "interpreter")) = 1
                             /\ ChildrenOf(name, "compiler") = {}
                             /\ ChildrenOf(name, "node") = {}
                        ELSE /\ Cardinality(ChildrenOf(name, "compiler")) = 1
                             /\ Cardinality(ChildrenOf(name, "node")) = 1
                             /\ ChildrenOf(name, "interpreter") = {}
                             /\ \A c \in ChildrenOf(name, "compiler") :
                                   c + 1 \in ChildrenOf(name, "node")

\* A completed compile-then-run run of two runnable cases.
C10_Witness ==
    /\ pc = "done"
    /\ mode = "compile"
    /\ Len(children) = 4
    /\ CountVerdict("skipped") = 0

\* The position of a case in discovery order.
Position(name) == CHOOSE p \in 1..Len(example_names) : example_names[p] = name

\* The children that have not exited.
Alive == {k \in 1..Len(children) : children[k].running}

\* C11: cases are processed one at a time in discovery order: at most one
\* child is alive, it is the child of the case the loop is at and the harness
\* is waiting for it; no child of an earlier case is alive when a later case
\* is resolved, and the compiler of a case has exited before node is started.
C11_StrictlySequential ==
    /\ Cardinality(Alive) <= 1
    /\ \A k \in Alive :
          /\ k = Len(children)
          /\ i <= Len(example_names)
          /\ children[k].name = CurName
          /\ \/ pc = "communicate"
             \/ pc = "aborted" /\ fault = <<"communicate">>
    /\ \A k \in 1..Len(children) :
          /\ \E p \in 1..Len(example_names) : example_names[p] = children[k].name
          /\ Position(children[k].name) <= i
    /\ \A j, k \in 1..Len(children) :
          j < k => Position(children[j].name) <= Position(children[k].name)
    /\ \A k \in 1..Len(children) :
          children[k].prog = "node" =>
              /\ k > 1
              /\ children[k - 1].prog = "compiler"
              /\ ~children[k - 1].running

\* The harness waits for the child of the second case, after the children of
\* the first have exited.
C11_Witness ==
    /\ pc = "communicate"
    /\ i = 2
    /\ Len(children) >= 2
    /\ Alive = {Len(children)}

\* C12: when the root directory cannot be read the harness prints the cause
\* and exits with status 1; no case is resolved, no process is spawned and no
\* summary is printed.
C12_DiscoveryErrorIsFatal ==
    fault = <<"discovery">> =>
        /\ pc = "aborted"
        /\ exit_status = <<1>>
        /\ Len(out) = 1
        /\ out[1][1] \in {"Error reading directory: ", "Error reading subdirectories: "}
        /\ children = <<>>
        /\ verdicts = <<>>
        /\ example_names = <<>>
        /\ LinesStarting("Passed : ") = {}
        /\ LinesStarting("Skipped: ") = {}

\* The run has ended on an unreadable root directory.
C12_Witness == fault = <<"discovery">> /\ pc = "aborted"

\* C13: a failure to spawn the compiler, node or the interpreter ends the whole
\* run: the case path and the cause are printed, the exit status is 1, the case
\* gets no comparison and no later case is processed.
C13_SpawnFailureIsFatal ==
    fault = <<"spawn">> =>
        /\ pc = "aborted"
        /\ exit_status = <<1>>
        /\ i <= Len(example_names)
        /\ Len(verdicts) = i - 1
        /\ Len(out) >= 2
        /\ out[Len(out) - 1] = ProgramFile(mode, CurName)
        /\ out[Len(out)][1] \in {"Failed to run compiler: ",
                                 "Failed to run node on compiled output: ",
                                 "Failed to run interpreter: "}
        /\ Alive = {}
        /\ LinesStarting("Passed : ") = {}

\* The interpreter of the second case could not be started, a first case
\* having been compared.
C13_Witness ==
    /\ fault = <<"spawn">>
    /\ mode = "direct"
    /\ Len(verdicts) = 1
    /\ verdicts[1].verdict # "skipped"
    /\ Len(example_names) = 2

\* C15: the a.mjs that node executes for a case is the one written by the
\* compiler run of that same case, never one left by an earlier case or run.
C15_ArtifactOfSameCase ==
    (mode = "compile" /\ pc \in {"communicate", "check_result", "compare"})
        => ran_artifact = <<CurName>>

\* The .va entries of the listing, by position.
VaEntries ==
    {k \in 1..Len(listing) :
        LET nm == listing[k].name
        IN  /\ Len(nm) >= 3
            /\ nm[Len(nm) - 2] = "."
            /\ nm[Len(nm) - 1] = "v"
            /\ nm[Len(nm)] = "a"}

\* The directory entries of the listing, by position.
DirEntries == {k \in 1..Len(listing) : listing[k].is_dir}

\* The rank of position k among the positions S.
Rank(S, k) == Cardinality({j \in S : j <= k})

\* C16: flat-file discovery yields one case per entry ending in ".va", in
\* listing order, named by the entry without its last three characters, and
\* nothing else; per-case-directory discovery yields the names of the entries
\* that are directories, in listing order, and nothing else.
C16_DiscoveryExact ==
    (pc # "discover" /\ fault # <<"discovery">>) =>
        IF mode = "compile"
        THEN /\ Len(example_names) = Cardinality(VaEntries)
             /\ \A k \in VaEntries :
                   /\ example_names[Rank(VaEntries, k)] \o <<".", "v", "a">>
                         = listing[k].name
        ELSE /\ Len(example_names) = Cardinality(DirEntries)
             /\ \A k \in DirEntries :
                   example_names[Rank(DirEntries, k)] = listing[k].name

\* A listing whose first entry is no source and whose second entry is one.
C16_Witness ==
    /\ mode = "compile"
    /\ pc = "loop"
    /\ Len(listing) = 2
    /\ VaEntries = {2}
    /\ example_names = << <<"b">> >>

C17_ModesClassifyAlike ==
    run = 4 =>
        IF pc \in {"done", "aborted"}
        THEN first_result = <<Outcome>>
        ELSE ENABLED NextModes

\* test_examples.py has ended after a passed and a skipped case.
C17_Witness ==
    /\ run = 4
    /\ mode = "direct"
    /\ pc = "done"
    /\ CountVerdict("passed") = 1
    /\ CountVerdict("skipped") = 1

====
